---- MODULE Spec2Model ----
(***************************************************************************)
(* Model of pkg/kritis/metadata/containeranalysis/containeranalysis.go:    *)
(* the ContainerAnalysis client (list vulnerabilities / attestations,      *)
(* attestation notes and occurrences) driven against a remote metadata     *)
(* service.                                                                *)
(*                                                                         *)
(* Strings are sequences of atoms.  An atom is either a one-character      *)
(* separator (".", "/", ":", "@") or a non-empty separator-free chunk of   *)
(* characters ("gcr", "proj", ...), so strings.Split, strings.Join and     *)
(* fmt.Sprintf act on them exactly as on the character strings.            *)
(***************************************************************************)
EXTENDS Naturals, Sequences, FiniteSets, TLC

\* ------------------------------------------------------------------ bounds
MaxLabels == 3
MaxRecs == 2
MaxIssues == 2
MaxOccs == 1

\* ------------------------------------------------------------ string model
Str(a) == <<a>>

\* strings.Split(s, sep): n separators give n+1 segments, "" gives one empty segment
Split(s, sep) ==
  LET RECURSIVE Go(_, _, _)
      Go(i, cur, acc) ==
        IF i > Len(s) THEN Append(acc, cur)
        ELSE IF s[i] = sep THEN Go(i + 1, <<>>, Append(acc, cur))
             ELSE Go(i + 1, Append(cur, s[i]), acc)
  IN Go(1, <<>>, <<>>)

\* strings.Join(parts, sep)
Join(parts, sep) ==
  LET RECURSIVE Go(_)
      Go(i) == IF i > Len(parts) THEN <<>>
               ELSE IF i = Len(parts) THEN parts[i]
               ELSE parts[i] \o <<sep>> \o Go(i + 1)
  IN Go(1)

\* strings.SplitN(s, sep, 2), from the segments of strings.Split(s, sep)
FirstAndRest(parts, sep) ==
  IF Len(parts) = 1 THEN parts
  ELSE <<parts[1], Join(SubSeq(parts, 2, Len(parts)), sep)>>

SplitN2(s, sep) == FirstAndRest(Split(s, sep), sep)

\* strings.Contains / strings.ContainsRune for a one-character needle
Contains(s, a) == \E i \in 1..Len(s) : s[i] = a

\* ------------------------------------------------------------- constants
\* constants.ResourceUrlPrefix
ResourceUrlPrefix == <<"https", ":", "/", "/">>
\* name.DefaultRegistry, what RegistryStr() gives for an empty registry
DefaultRegistry == <<"index", ".", "docker", ".", "io">>
PkgVulnerability == "PACKAGE_VULNERABILITY"
AttestationAuthority == "ATTESTATION_AUTHORITY"

\* ------------------------------------------- name.ParseReference (weak)
\* chunks made only of lower-case letters, digits, '-' and '_' (each has two
\* characters or more)
RepoChunks == {"gcr", "io", "us", "proj", "img", "tag", "443", "sha256", "hex64"}
\* chunks holding an upper-case letter
UpperChunks == {"Proj"}
Digits == {"443"}

\* checkRepository: allowed characters, and 2..255 of them
checkRepository(repo) ==
  /\ \A i \in 1..Len(repo) : repo[i] \in RepoChunks \cup {".", "/"}
  /\ repo # <<>>
  /\ ~(Len(repo) = 1 /\ repo[1] \in {".", "/"})

\* checkTag: allowed characters (letters of both cases, digits, "_-."), 1..127
checkTag(tag) ==
  /\ tag # <<>>
  /\ \A i \in 1..Len(tag) : tag[i] \in RepoChunks \cup UpperChunks \cup {"."}

\* checkRegistry: url.Parse("//" + name) succeeds with Host = name
checkRegistry(reg) ==
  /\ ~Contains(reg, "/")
  /\ ~Contains(reg, "@")
  /\ \A i \in 1..Len(reg) :
       reg[i] = ":" => (i = Len(reg) - 1 /\ reg[Len(reg)] \in Digits)

ParseError == [ok |-> FALSE, registry |-> <<>>]

\* the first of two parse results that is no error
FirstOk(r1, r2) == IF r1.ok THEN r1 ELSE IF r2.ok THEN r2 ELSE ParseError

\* name.NewRepository, once the registry and the repository are told apart
RepositoryOf(registry, repo) ==
  IF ~checkRepository(repo) THEN ParseError
  ELSE IF ~checkRegistry(registry) THEN ParseError
  ELSE [ok |-> TRUE, registry |-> registry]

\* the first part of the name is the registry iff it has a '.' or a ':'
HasRegistry(parts) ==
  Len(parts) = 2 /\ (Contains(parts[1], ".") \/ Contains(parts[1], ":"))

\* name.NewRepository on a name and its parts := strings.SplitN(name, "/", 2)
RepositoryOfParts(nm, parts) ==
  RepositoryOf(IF HasRegistry(parts) THEN parts[1] ELSE <<>>,
               IF HasRegistry(parts) THEN parts[2] ELSE nm)

\* name.NewRepository(name, WeakValidation)
NewRepository(nm) ==
  IF nm = <<>> THEN ParseError ELSE RepositoryOfParts(nm, SplitN2(nm, "/"))

\* the last ':'-part is a tag unless it holds a '/' (a host with a port)
HasTag(parts) == Len(parts) > 1 /\ ~Contains(parts[Len(parts)], "/")

\* name.NewTag on a name and its parts := strings.Split(name, ":"); an empty
\* tag is not checked under weak validation
TagOfParts(nm, parts) ==
  IF HasTag(parts) /\ parts[Len(parts)] # <<>> /\ ~checkTag(parts[Len(parts)])
  THEN ParseError
  ELSE NewRepository(IF HasTag(parts)
                     THEN Join(SubSeq(parts, 1, Len(parts) - 1), ":")
                     ELSE nm)

\* name.NewTag(name, WeakValidation)
NewTag(nm) == TagOfParts(nm, Split(nm, ":"))

\* name.NewDigest on the parts := strings.Split(name, "@"): the base is
\* stripped of a tag when it parses as one
DigestOfParts(parts) ==
  IF Len(parts) # 2 THEN ParseError
  ELSE IF parts[2] # <<"sha256", ":", "hex64">> THEN ParseError
  ELSE FirstOk(NewTag(parts[1]), NewRepository(parts[1]))

\* name.NewDigest(name, WeakValidation)
NewDigest(nm) == DigestOfParts(Split(nm, "@"))

\* name.ParseReference(s, name.WeakValidation): a tag, else a digest, else an error
ParseReference(s) == FirstOk(NewTag(s), NewDigest(s))

\* ref.Context().RegistryStr()
RegistryStr(ref) == IF ref.registry # <<>> THEN ref.registry ELSE DefaultRegistry

\* ---------------------------------------------------------- the validator
\* the test of isRegistryGCR on registry := strings.Split(r, ".")
LastTwoAreGcrIo_anywhere(registry) ==
  \E i \in 1..(Len(registry) - 1) :
    registry[i] = Str("gcr") /\ registry[i + 1] = Str("io")

LastTwoAreGcrIo(registry) ==
  IF Len(registry) < 2 THEN FALSE
  ELSE IF registry[Len(registry) - 1] # Str("gcr")
          \/ registry[Len(registry)] # Str("io") THEN FALSE
  ELSE TRUE

isRegistryGCR(r) == LastTwoAreGcrIo(Split(r, "."))

\* the rest of isValidImageOnGCR, given ref, err := name.ParseReference(...)
ValidParsed(ref) ==
  IF ~ref.ok THEN FALSE ELSE isRegistryGCR(RegistryStr(ref))

isValidImageOnGCR(containerImage) == ValidParsed(ParseReference(containerImage))

\* fmt.Sprintf("%s%s", constants.ResourceUrlPrefix, containerImage)
getResourceUrl(containerImage) == ResourceUrlPrefix \o containerImage

\* ------------------------------------------------------------------ inputs
Labels == {"gcr", "io", "us"}

\* every host of at most MaxLabels labels
Hosts ==
  LET RECURSIVE OfLen(_)
      OfLen(n) == IF n = 0 THEN {<<>>}
                  ELSE IF n = 1 THEN {Str(l) : l \in Labels}
                  ELSE {h \o <<".", l>> : h \in OfLen(n - 1), l \in Labels}
  IN UNION {OfLen(n) : n \in 0..MaxLabels}

Suffixes ==
  { <<>>,
    <<"/", "proj", "/", "img">>,
    <<"/", "proj", "/", "img", ":", "tag">>,
    <<":", "443", "/", "proj", "/", "img">>,
    <<"/", "img">>,
    <<"/", "Proj", "/", "img">>,
    <<"/", "proj", "/", "img", "@", "sha256", ":", "hex64">> }

\* hosts of other registries
OtherHosts == {<<"docker", ".", "io">>}

Images == {h \o s : h \in Hosts \cup OtherHosts, s \in Suffixes}

\* kritisv1beta1.AttestationAuthority descriptors {Name, Namespace, NoteReference}
HttpsRef == <<"https", ":", "/", "/", "api", "/", "projects", "/", "my-proj">>
V1Ref == <<"v1alpha1", "/", "projects", "/", "my-proj">>
LongRef == <<"v1alpha1", "/", "projects", "/", "my-proj", "/", "notes", "/", "att1">>
BadRef == <<"bad">>
TwoSegRef == <<"v1alpha1", "/", "projects">>
NoteRefs == {HttpsRef, V1Ref, LongRef, BadRef, TwoSegRef, <<>>}
AuthorityNames == {Str("att1")}
Authorities ==
  [Name : AuthorityNames, Namespace : {Str("ns")}, NoteReference : NoteRefs]

\* what the remote service or the network can do to one call
Faults == {"none", "Unavailable"}
\* the environment of one invocation: the fault the remote call meets, and
\* whether the caller gives up (cancels its own context) while the call runs
Envs == [fault : Faults, cancel : BOOLEAN]

\* ---------------------------------------------------------------- contexts
\* context.Background() is never cancelled; a context handed down by the caller
\* is done once the caller cancels it
CtxDone(ctx, env) == ctx = "Caller" /\ env.cancel

\* --------------------------------------------------------- remote service
\* The store of the remote service: st = [notes, occs, nextOcc].
Response(err, val, st) == [err |-> err, val |-> val, st |-> st]

FormatProject(project) == <<"projects", "/">> \o project
FormatNoteName(project, nm) ==
  <<"projects", "/">> \o project \o <<"/", "notes", "/">> \o nm
OccurrenceName(parent, n) == parent \o <<"/", "occurrences", "/", ToString(n)>>

RemoteCreateNote(req, st) ==
  LET nm == req.Parent \o <<"/", "notes", "/">> \o req.NoteId
  IN IF nm \in st.notes THEN Response("AlreadyExists", <<>>, st)
     ELSE Response("nil", nm, [st EXCEPT !.notes = @ \cup {nm}])

RemoteGetNote(req, st) ==
  IF req.Name \in st.notes THEN Response("nil", req.Name, st)
  ELSE Response("NotFound", <<>>, st)

RemoteDeleteNote(req, st) ==
  IF req.Name \in st.notes
  THEN Response("nil", <<>>, [st EXCEPT !.notes = @ \ {req.Name}])
  ELSE Response("NotFound", <<>>, st)

RemoteCreateOccurrence(req, st) ==
  LET nm == OccurrenceName(req.Parent, st.nextOcc + 1)
  IN Response("nil", nm,
              [st EXCEPT !.occs = @ \cup {nm}, !.nextOcc = @ + 1])

RemoteDeleteOccurrence(req, st) ==
  IF req.Name \in st.occs
  THEN Response("nil", <<>>, [st EXCEPT !.occs = @ \ {req.Name}])
  ELSE Response("NotFound", <<>>, st)

\* one unary call c.client.<method>(ctx, req): what the service answers, and the
\* record of the call
Call(method, ctx, req, st, env) ==
  LET resp ==
        IF CtxDone(ctx, env) THEN Response("Canceled", <<>>, st)
        ELSE IF env.fault # "none" THEN Response(env.fault, <<>>, st)
        ELSE CASE method = "CreateNote" -> RemoteCreateNote(req, st)
               [] method = "GetNote" -> RemoteGetNote(req, st)
               [] method = "DeleteNote" -> RemoteDeleteNote(req, st)
               [] method = "CreateOccurrence" -> RemoteCreateOccurrence(req, st)
               [] method = "DeleteOccurrence" -> RemoteDeleteOccurrence(req, st)
  IN [method |-> method, ctx |-> ctx, req |-> req,
      sawCancel |-> CtxDone(ctx, env), resp |-> resp]

\* ------------------------------------------------------------ the handlers
\* What one invocation does: the remote calls it made, the calls it made to the
\* signing delegate, the number of iterator fetches, what fethcOccurrence returned, what the
\* operation returned, and the store it leaves.
Result(err, val) == [err |-> err, val |-> val]
NoFetch == [err |-> "none", occs |-> <<>>]
Outcome(calls, signCalls, nexts, fetched, result, st) ==
  [calls |-> calls, signCalls |-> signCalls, nexts |-> nexts,
   fetched |-> fetched, result |-> result, st |-> st]

getProjectFromNoteReference_secondSegment(ref) ==
  LET str == Split(ref, "/")
  IN IF Len(str) < 3 THEN [project |-> <<>>, err |-> "MalformedReference"]
     ELSE [project |-> str[2], err |-> "nil"]

getProjectFromNoteReference(ref) ==
  LET str == Split(ref, "/")
  IN IF Len(str) < 3 THEN [project |-> <<>>, err |-> "MalformedReference"]
     ELSE [project |-> str[3], err |-> "nil"]

BuildNote(aa, noteProject) ==
  [Name |-> FormatNoteName(noteProject, aa.Name),
   ShortDescription |-> Str("Image Policy Security Attestor"),
   LongDescription |->
     Str("Image Policy Security Attestor deployed in ") \o aa.Namespace
       \o Str(" namespace"),
   NoteType |-> AttestationAuthority,
   HumanReadableName |-> aa.Name]

CreateAttestationNote_retry(c, aa, st, env) ==
  LET p == getProjectFromNoteReference(aa.NoteReference)
      req == [Note |-> BuildNote(aa, p.project), NoteId |-> aa.Name,
              Parent |-> FormatProject(p.project)]
      call == Call("CreateNote", c.ctx, req, st, env)
      again == Call("CreateNote", c.ctx, req, call.resp.st, env)
  IN IF p.err # "nil"
     THEN Outcome(<<>>, <<>>, 0, NoFetch, Result(p.err, <<>>), st)
     ELSE IF call.resp.err = "nil"
     THEN Outcome(<<call>>, <<>>, 0, NoFetch, Result("nil", <<>>), call.resp.st)
     ELSE Outcome(<<call, again>>, <<>>, 0, NoFetch,
                  Result(again.resp.err, <<>>), again.resp.st)

CreateAttestationNote(c, aa, st, env) ==
  LET p == getProjectFromNoteReference(aa.NoteReference)
      req == [Note |-> BuildNote(aa, p.project), NoteId |-> aa.Name,
              Parent |-> FormatProject(p.project)]
      call == Call("CreateNote", c.ctx, req, st, env)
  IN IF p.err # "nil"
     THEN Outcome(<<>>, <<>>, 0, NoFetch, Result(p.err, <<>>), st)
     ELSE Outcome(<<call>>, <<>>, 0, NoFetch,
                  Result(call.resp.err, <<>>), call.resp.st)

GetAttestationNote_namespace(c, aa, st, env) ==
  LET p == getProjectFromNoteReference(aa.NoteReference)
      req == [Name |-> FormatNoteName(aa.Namespace, aa.Name)]
      call == Call("GetNote", c.ctx, req, st, env)
  IN IF p.err # "nil"
     THEN Outcome(<<>>, <<>>, 0, NoFetch, Result(p.err, <<>>), st)
     ELSE Outcome(<<call>>, <<>>, 0, NoFetch,
                  Result(call.resp.err, call.resp.val), call.resp.st)

GetAttestationNote(c, aa, st, env) ==
  LET p == getProjectFromNoteReference(aa.NoteReference)
      req == [Name |-> FormatNoteName(p.project, aa.Name)]
      call == Call("GetNote", c.ctx, req, st, env)
  IN IF p.err # "nil"
     THEN Outcome(<<>>, <<>>, 0, NoFetch, Result(p.err, <<>>), st)
     ELSE Outcome(<<call>>, <<>>, 0, NoFetch,
                  Result(call.resp.err, call.resp.val), call.resp.st)

DeleteAttestationNote(c, aa, st, env) ==
  LET p == getProjectFromNoteReference(aa.NoteReference)
      req == [Name |-> FormatNoteName(p.project, aa.Name)]
      call == Call("DeleteNote", c.ctx, req, st, env)
  IN IF p.err # "nil"
     THEN Outcome(<<>>, <<>>, 0, NoFetch, Result(p.err, <<>>), st)
     ELSE Outcome(<<call>>, <<>>, 0, NoFetch,
                  Result(call.resp.err, <<>>), call.resp.st)

DeleteOccurrence(c, occurrenceId, st, env) ==
  LET req == [Name |-> occurrenceId]
      call == Call("DeleteOccurrence", c.ctx, req, st, env)
  IN Outcome(<<call>>, <<>>, 0, NoFetch,
             Result(call.resp.err, <<>>), call.resp.st)

\* note.GetName(): the getter of a nil note gives ""
GetName(note) == IF note.nil THEN <<>> ELSE note.Name

\* strings.Split(containerImage, "/")[1]; a missing index is a run-time panic
ProjectOf(containerImage) ==
  LET parts == Split(containerImage, "/")
  IN IF Len(parts) < 2 THEN [panic |-> TRUE, project |-> <<>>]
     ELSE [panic |-> FALSE, project |-> parts[2]]

BuildOccurrenceRequest_leakKey(note, containerImage, pgpSigningKey, sig) ==
  [Occurrence |->
     [ResourceUrl |-> getResourceUrl(containerImage),
      NoteName |-> GetName(note),
      Signature |-> sig,
      PgpKeyId |-> pgpSigningKey.PrivateKey],
   Parent |-> FormatProject(ProjectOf(containerImage).project)]

BuildOccurrenceRequest(note, containerImage, pgpSigningKey, sig) ==
  [Occurrence |->
     [ResourceUrl |-> getResourceUrl(containerImage),
      NoteName |-> GetName(note),
      Signature |-> sig,
      PgpKeyId |-> pgpSigningKey.SecretName],
   Parent |-> FormatProject(ProjectOf(containerImage).project)]

\* sign is what util.CreateAttestationSignature(containerImage, pgpSigningKey)
\* gives when it is called: [err, sig]
CreateAttestationOccurence_signFirst(c, note, containerImage, pgpSigningKey, sign, st, env) ==
  LET req == BuildOccurrenceRequest(note, containerImage, pgpSigningKey, sign.sig)
      call == Call("CreateOccurrence", c.ctx, req, st, env)
      signed == <<[containerImage |-> containerImage, key |-> pgpSigningKey,
                   ret |-> sign]>>
  IN IF sign.err # "nil"
     THEN Outcome(<<>>, signed, 0, NoFetch, Result(sign.err, <<>>), st)
     ELSE IF ~isValidImageOnGCR(containerImage)
     THEN Outcome(<<>>, signed, 0, NoFetch, Result("InvalidImage", <<>>), st)
     ELSE IF ProjectOf(containerImage).panic
     THEN Outcome(<<>>, signed, 0, NoFetch, Result("panic", <<>>), st)
     ELSE Outcome(<<call>>, signed, 0, NoFetch,
                  Result(call.resp.err, call.resp.val), call.resp.st)

CreateAttestationOccurence(c, note, containerImage, pgpSigningKey, sign, st, env) ==
  LET req == BuildOccurrenceRequest(note, containerImage, pgpSigningKey, sign.sig)
      call == Call("CreateOccurrence", c.ctx, req, st, env)
      signed == <<[containerImage |-> containerImage, key |-> pgpSigningKey,
                   ret |-> sign]>>
  IN IF ~isValidImageOnGCR(containerImage)
     THEN Outcome(<<>>, <<>>, 0, NoFetch, Result("InvalidImage", <<>>), st)
     ELSE IF sign.err # "nil"
     THEN Outcome(<<>>, signed, 0, NoFetch, Result(sign.err, <<>>), st)
     ELSE IF ProjectOf(containerImage).panic
     THEN Outcome(<<>>, signed, 0, NoFetch, Result("panic", <<>>), st)
     ELSE Outcome(<<call>>, signed, 0, NoFetch,
                  Result(call.resp.err, call.resp.val), call.resp.st)

\* ------------------------------------------------------ payload extractors
\* An occurrence as the service sends it.  Details is the populated variant of
\* the details union; a sub-message the service left out is absent (a nil
\* pointer), and only the generated getters are nil-safe.
\* A package issue: [hasFixedLocation, hasVersion, Kind].
IssueFixed == [hasFixedLocation |-> TRUE, hasVersion |-> TRUE, Kind |-> "NORMAL"]
IssueMaximum == [hasFixedLocation |-> TRUE, hasVersion |-> TRUE, Kind |-> "MAXIMUM"]
IssueNoVersion == [hasFixedLocation |-> TRUE, hasVersion |-> FALSE, Kind |-> ""]
IssueNoLocation == [hasFixedLocation |-> FALSE, hasVersion |-> FALSE, Kind |-> ""]
Issues == {IssueFixed, IssueMaximum, IssueNoVersion, IssueNoLocation}

\* pi.GetFixedLocation().GetVersion().Kind: the getters pass a nil on, the field
\* read of a nil *Version is a nil-pointer panic
VersionKind(pi) ==
  IF ~pi.hasFixedLocation \/ ~pi.hasVersion THEN "panic" ELSE pi.Kind

\* "true", "false", or "panic"
isFixAvaliable(pis) ==
  LET RECURSIVE Go(_)
      Go(i) == IF i > Len(pis) THEN "true"
               ELSE IF VersionKind(pis[i]) = "panic" THEN "panic"
               ELSE IF VersionKind(pis[i]) = "MAXIMUM" THEN "false"
               ELSE Go(i + 1)
  IN Go(1)

\* containeranalysispb.VulnerabilityType_Severity_name; no entry gives ""
SeverityName(sev) ==
  CASE sev = "0" -> "SEVERITY_UNSPECIFIED"
    [] sev = "1" -> "MINIMAL"
    [] sev = "2" -> "LOW"
    [] sev = "3" -> "MEDIUM"
    [] sev = "4" -> "HIGH"
    [] sev = "5" -> "CRITICAL"
    [] OTHER -> ""

Panic == [panic |-> TRUE]

GetVulnerabilityFromOccurence(occ) ==
  IF occ.Details # "VulnerabilityDetails" THEN Panic
  ELSE IF isFixAvaliable(occ.PackageIssue) = "panic" THEN Panic
  ELSE [panic |-> FALSE,
        Severity |-> SeverityName(occ.Severity),
        HasFixAvailable |-> isFixAvaliable(occ.PackageIssue) = "true",
        CVE |-> occ.NoteName]

getPgpAttestationFromOccurrence(occ) ==
  IF occ.Details # "Attestation" THEN Panic
  ELSE [panic |-> FALSE,
        Signature |-> IF occ.hasPgp THEN occ.Signature ELSE <<>>,
        KeyId |-> IF occ.hasPgp THEN occ.PgpKeyId ELSE <<>>]

VulnOcc(noteName, sev, pis) ==
  [Details |-> "VulnerabilityDetails", NoteName |-> noteName, Severity |-> sev,
   PackageIssue |-> pis, hasPgp |-> FALSE, Signature |-> <<>>, PgpKeyId |-> <<>>]
AttOcc(noteName, hasPgp, sig, keyId) ==
  [Details |-> "Attestation", NoteName |-> noteName, Severity |-> "0",
   PackageIssue |-> <<>>, hasPgp |-> hasPgp, Signature |-> sig, PgpKeyId |-> keyId]

\* ------------------------------------------------------------ the listing
\* The iterator of one listing is a script of answers to it.Next(): items
\* [err, occ]; past the script's end the answer is iterator.Done.
ItemOk(occ) == [err |-> "nil", occ |-> occ]
ItemErr == [err |-> "Unavailable", occ |-> AttOcc(<<>>, FALSE, <<>>, <<>>)]

Filter(resourceUrl, kind) ==
  <<"resource_url=", "\"">> \o resourceUrl
    \o <<"\"", " AND ", "kind=", "\"", kind, "\"">>

\* it.Next(), the i-th time
ItNext(ctx, it, i, env) ==
  IF CtxDone(ctx, env) THEN [err |-> "Canceled", occ |-> ItemErr.occ]
  ELSE IF i > Len(it) THEN [err |-> "Done", occ |-> ItemErr.occ]
  ELSE it[i]

\* the loop of fethcOccurrence: [err, occs, nexts]
FetchLoop_keepPartial(ctx, it, env) ==
  LET RECURSIVE Go(_, _)
      Go(i, occs) ==
        LET r == ItNext(ctx, it, i, env)
        IN IF r.err = "Done" THEN [err |-> "nil", occs |-> occs, nexts |-> i]
           ELSE IF r.err # "nil" THEN [err |-> r.err, occs |-> occs, nexts |-> i]
           ELSE Go(i + 1, Append(occs, r.occ))
  IN Go(1, <<>>)

FetchLoop(ctx, it, env) ==
  LET RECURSIVE Go(_, _)
      Go(i, occs) ==
        LET r == ItNext(ctx, it, i, env)
        IN IF r.err = "Done" THEN [err |-> "nil", occs |-> occs, nexts |-> i]
           ELSE IF r.err # "nil" THEN [err |-> r.err, occs |-> <<>>, nexts |-> i]
           ELSE Go(i + 1, Append(occs, r.occ))
  IN Go(1, <<>>)

PageSize == "constants.PageSize"

fethcOccurrence(c, containerImage, kind, it, st, env) ==
  LET req == [Filter |-> Filter(getResourceUrl(containerImage), kind),
              PageSize |-> PageSize,
              Parent |-> FormatProject(ProjectOf(containerImage).project)]
      f == FetchLoop(c.ctx, it, env)
      call == [method |-> "ListOccurrences", ctx |-> c.ctx, req |-> req,
               sawCancel |-> CtxDone(c.ctx, env),
               resp |-> Response(f.err, <<>>, st)]
  IN IF ~isValidImageOnGCR(containerImage)
     THEN Outcome(<<>>, <<>>, 0, [err |-> "InvalidImage", occs |-> <<>>],
                  Result("InvalidImage", <<>>), st)
     ELSE IF ProjectOf(containerImage).panic
     THEN Outcome(<<>>, <<>>, 0, [err |-> "panic", occs |-> <<>>],
                  Result("panic", <<>>), st)
     ELSE Outcome(<<call>>, <<>>, f.nexts, [err |-> f.err, occs |-> f.occs],
                  Result(f.err, f.occs), st)

\* the projections of occs in order, or "panic" at the first one that panics
ProjectAll(occs, kind) ==
  LET Proj(occ) == IF kind = PkgVulnerability
                   THEN GetVulnerabilityFromOccurence(occ)
                   ELSE getPgpAttestationFromOccurrence(occ)
      RECURSIVE Go(_, _)
      Go(i, acc) == IF i > Len(occs) THEN Result("nil", acc)
                    ELSE IF Proj(occs[i]).panic THEN Result("panic", <<>>)
                    ELSE Go(i + 1, Append(acc, Proj(occs[i])))
  IN Go(1, <<>>)

GetVulnerabilities(c, containerImage, it, st, env) ==
  LET o == fethcOccurrence(c, containerImage, PkgVulnerability, it, st, env)
  IN IF o.fetched.err # "nil" THEN [o EXCEPT !.result = Result(o.fetched.err, <<>>)]
     ELSE [o EXCEPT !.result = ProjectAll(o.fetched.occs, PkgVulnerability)]

GetAttestations(c, containerImage, it, st, env) ==
  LET o == fethcOccurrence(c, containerImage, AttestationAuthority, it, st, env)
  IN IF o.fetched.err # "nil" THEN [o EXCEPT !.result = Result(o.fetched.err, <<>>)]
     ELSE [o EXCEPT !.result = ProjectAll(o.fetched.occs, AttestationAuthority)]

\* ------------------------------------------------------------ more inputs
OccA == VulnOcc(Str("CVE-1"), "4", <<IssueMaximum>>)
OccB == VulnOcc(Str("CVE-2"), "2", <<IssueFixed>>)
OccC == VulnOcc(Str("CVE-3"), "3", <<IssueNoLocation>>)
VulnRecs == {OccA, OccB, OccC}
AttX == AttOcc(Str("note-x"), TRUE, Str("sig-x"), Str("key-x"))
AttY == AttOcc(Str("note-y"), FALSE, <<>>, <<>>)
AttRecs == {AttX, AttY}

SeqsUpTo(S, n) == UNION {[1..k -> S] : k \in 0..n}

\* the iterator scripts of a listing of the given kind: the service honours the
\* kind filter, and any fetch may fail
VulnScripts == SeqsUpTo({ItemOk(r) : r \in VulnRecs} \cup {ItemErr}, MaxRecs)
AttScripts == SeqsUpTo({ItemOk(r) : r \in AttRecs} \cup {ItemErr}, MaxRecs)

\* every occurrence GetVulnerabilityFromOccurence can be handed
IssueLists == SeqsUpTo(Issues, MaxIssues)
OccInputs == {VulnOcc(Str("CVE-1"), "4", pis) : pis \in IssueLists} \cup {AttX}

NoteInputs ==
  {[nil |-> TRUE, Name |-> <<>>],
   [nil |-> FALSE, Name |-> FormatNoteName(Str("my-proj"), Str("att1"))]}

\* secrets.PgpSigningSecret
SigningKeys ==
  {[SecretName |-> Str("key-secret"), PrivateKey |-> Str("PRIVATE-KEY"),
    PublicKey |-> Str("PUBLIC-KEY")]}

\* what util.CreateAttestationSignature can return
SignReturns == {[err |-> "SignError", sig |-> <<>>],
                [err |-> "nil", sig |-> Str("signature-1")]}

\* placeholders for what an invocation never reads
NoSign == [err |-> "SignError", sig |-> <<>>]
NoEnv == [fault |-> "none", cancel |-> FALSE]

OccurrenceIds ==
  {OccurrenceName(FormatProject(Str(p)), n) : p \in {"proj", "img"}, n \in 1..MaxOccs}

\* ------------------------------------------------------------------- state
VARIABLES
  c,          \* the ContainerAnalysis value: [ctx]
  st,         \* the remote service's store: [notes, occs, nextOcc]
  live,       \* history: the notes created and not deleted since, as <<project, name>>
  op,         \* the last operation invoked
  arg,        \* its arguments
  cancelled,  \* whether its caller cancelled while a remote call of it was running
  calls,      \* the remote calls it made
  signCalls,  \* the calls it made to the signing delegate
  nexts,      \* the number of it.Next() calls it made
  fetched,    \* what fethcOccurrence returned to it: [err, occs]
  result      \* what it returned: [err, val]

vars == <<c, st, live, op, arg, cancelled, calls, signCalls, nexts, fetched, result>>

\* NewContainerAnalysisClient: ctx := context.Background()
NewContainerAnalysisClient == [ctx |-> "Background"]

Init ==
  /\ c = NewContainerAnalysisClient
  /\ st = [notes |-> {}, occs |-> {}, nextOcc |-> 0]
  /\ live = {}
  /\ op = "none"
  /\ arg = [none |-> TRUE]
  /\ cancelled = FALSE
  /\ calls = <<>>
  /\ signCalls = <<>>
  /\ nexts = 0
  /\ fetched = NoFetch
  /\ result = Result("nil", <<>>)

\* the state after an invocation with outcome o; an operation is invoked once
\* the caller has taken the result of the one before
Returns(name, a, env, o) ==
  /\ op' = name
  /\ arg' = a
  /\ cancelled' = (env.cancel /\ o.calls # <<>>)
  /\ calls' = o.calls
  /\ signCalls' = o.signCalls
  /\ nexts' = o.nexts
  /\ fetched' = o.fetched
  /\ result' = o.result
  /\ st' = o.st
  /\ c' = c

\* the note a descriptor names, read off the descriptor
NoteKey(aa) == <<Split(aa.NoteReference, "/")[3], aa.Name>>

DoGetVulnerabilities ==
  /\ op = "none"
  /\ \E containerImage \in Images, cancel \in BOOLEAN :
    \E it \in IF isValidImageOnGCR(containerImage)
              THEN VulnScripts ELSE {<<>>} :
      LET env == [fault |-> "none", cancel |-> cancel]
      IN \E o \in {GetVulnerabilities(c, containerImage, it, st, env)} :
           /\ Returns("GetVulnerabilities",
                      [containerImage |-> containerImage, it |-> it], env, o)
           /\ live' = live

DoGetAttestations ==
  /\ op = "none"
  /\ \E containerImage \in Images, cancel \in BOOLEAN :
    \E it \in IF isValidImageOnGCR(containerImage)
              THEN AttScripts ELSE {<<>>} :
      LET env == [fault |-> "none", cancel |-> cancel]
      IN \E o \in {GetAttestations(c, containerImage, it, st, env)} :
           /\ Returns("GetAttestations",
                      [containerImage |-> containerImage, it |-> it], env, o)
           /\ live' = live

DoGetVulnerabilityFromOccurence ==
  /\ op = "none"
  /\ \E occ \in OccInputs :
    \E v \in {GetVulnerabilityFromOccurence(occ)} :
       /\ Returns("GetVulnerabilityFromOccurence", [occ |-> occ],
                  [fault |-> "none", cancel |-> FALSE],
                  Outcome(<<>>, <<>>, 0, NoFetch,
                          IF v.panic THEN Result("panic", <<>>)
                          ELSE Result("nil", <<v>>), st))
       /\ live' = live

DoCreateAttestationNote ==
  /\ op = "none"
  /\ \E aa \in Authorities, env \in Envs :
    \E o \in {CreateAttestationNote(c, aa, st, env)} :
       /\ Returns("CreateAttestationNote", [aa |-> aa], env, o)
       /\ live' = IF o.result.err = "nil" THEN live \cup {NoteKey(aa)} ELSE live

DoGetAttestationNote ==
  /\ op = "none"
  /\ \E aa \in Authorities, env \in Envs :
    \E o \in {GetAttestationNote(c, aa, st, env)} :
       /\ Returns("GetAttestationNote", [aa |-> aa], env, o)
       /\ live' = live

DoDeleteAttestationNote ==
  /\ op = "none"
  /\ \E aa \in Authorities, env \in Envs :
    \E o \in {DeleteAttestationNote(c, aa, st, env)} :
       /\ Returns("DeleteAttestationNote", [aa |-> aa], env, o)
       /\ live' = IF o.result.err = "nil" THEN live \ {NoteKey(aa)} ELSE live

DoCreateAttestationOccurence ==
  /\ op = "none"
  /\ \E note \in NoteInputs, containerImage \in Images, pgpSigningKey \in SigningKeys :
   \E sign \in IF isValidImageOnGCR(containerImage)
                THEN SignReturns ELSE {NoSign} :
    \E env \in IF isValidImageOnGCR(containerImage) /\ sign.err = "nil"
                THEN Envs ELSE {NoEnv} :
    \E o \in {CreateAttestationOccurence(c, note, containerImage, pgpSigningKey,
                                          sign, st, env)} :
       /\ o.st.nextOcc <= MaxOccs
       /\ Returns("CreateAttestationOccurence",
                  [note |-> note, containerImage |-> containerImage,
                   pgpSigningKey |-> pgpSigningKey], env, o)
       /\ live' = live

DoDeleteOccurrence ==
  /\ op = "none"
  /\ \E occurrenceId \in OccurrenceIds, env \in Envs :
    \E o \in {DeleteOccurrence(c, occurrenceId, st, env)} :
       /\ Returns("DeleteOccurrence", [occurrenceId |-> occurrenceId], env, o)
       /\ live' = live

\* the caller takes the result
TakeResult ==
  /\ op # "none"
  /\ op' = "none"
  /\ arg' = [none |-> TRUE]
  /\ cancelled' = FALSE
  /\ calls' = <<>>
  /\ signCalls' = <<>>
  /\ nexts' = 0
  /\ fetched' = NoFetch
  /\ result' = Result("nil", <<>>)
  /\ UNCHANGED <<c, st, live>>

Next ==
  \/ DoGetVulnerabilities
  \/ DoGetAttestations
  \/ DoGetVulnerabilityFromOccurence
  \/ DoCreateAttestationNote
  \/ DoGetAttestationNote
  \/ DoDeleteAttestationNote
  \/ DoCreateAttestationOccurence
  \/ DoDeleteOccurrence
  \/ TakeResult

Spec == Init /\ [][Next]_vars

\* ------------------------------------------------------------- properties
ImageOps == {"GetVulnerabilities", "GetAttestations", "CreateAttestationOccurence"}
ListOps == {"GetVulnerabilities", "GetAttestations"}
NoteOps == {"CreateAttestationNote", "GetAttestationNote", "DeleteAttestationNote"}
TransportErrors == {"Unavailable", "Canceled"}

\* the reference has at least three '/'-separated segments
WellFormedRef(ref) == Cardinality({i \in 1..Len(ref) : ref[i] = "/"}) >= 2

\* the host ends with the labels "gcr" and "io"
EndsWithGcrIo(h) ==
  /\ Len(h) >= 3
  /\ SubSeq(h, Len(h) - 2, Len(h)) = <<"gcr", ".", "io">>
  /\ (Len(h) > 3 => h[Len(h) - 3] = ".")

\* the position of the first failing fetch of a script, 0 if none fails
FirstErr(it) ==
  IF \E i \in 1..Len(it) : it[i].err # "nil"
  THEN CHOOSE i \in 1..Len(it) :
         it[i].err # "nil" /\ \A j \in 1..(i - 1) : it[j].err = "nil"
  ELSE 0

\* the last invocation was a note operation that addressed the note `nm` of
\* project `project`
Addressed(project, nm) ==
  /\ Len(calls) = 1
  /\ IF op = "CreateAttestationNote"
     THEN /\ calls[1].method = "CreateNote"
          /\ calls[1].req.Parent = <<"projects", "/">> \o project
          /\ calls[1].req.NoteId = nm
          /\ calls[1].req.Note.Name
               = <<"projects", "/">> \o project \o <<"/", "notes", "/">> \o nm
     ELSE /\ calls[1].method
               = (IF op = "GetAttestationNote" THEN "GetNote" ELSE "DeleteNote")
          /\ calls[1].req.Name
               = <<"projects", "/">> \o project \o <<"/", "notes", "/">> \o nm

\* C1: an operation given an image reference the validator rejects returns the
\* invalid-image error without any remote call, any fetch or any call to the
\* signing delegate.
C1_InvalidImageShortCircuits ==
  (op \in ImageOps /\ ~isValidImageOnGCR(arg.containerImage))
    => /\ result = Result("InvalidImage", <<>>)
       /\ calls = <<>>
       /\ nexts = 0
       /\ signCalls = <<>>
       /\ (op \in ListOps => fetched = [err |-> "InvalidImage", occs |-> <<>>])

C1_Witness ==
  /\ op = "CreateAttestationOccurence"
  /\ arg.containerImage = <<"docker", ".", "io", "/", "proj", "/", "img">>
  /\ result.err = "InvalidImage"
  /\ signCalls = <<>>

\* C2: when the caller cancels while a remote call of the operation is running,
\* the call observes the cancellation.
C2_CancellationPropagates ==
  cancelled => \A i \in 1..Len(calls) : calls[i].sawCancel

\* C3 as stated: the note reference "https://api/projects/my-proj" derives the
\* project "my-proj", and "bad" is rejected as malformed.
C3_HttpsRefDerivesMyProj ==
  /\ (op \in NoteOps /\ arg.aa.NoteReference = HttpsRef)
       => Addressed(Str("my-proj"), arg.aa.Name)
  /\ (op \in NoteOps /\ arg.aa.NoteReference = BadRef)
       => (result.err = "MalformedReference" /\ calls = <<>>)

\* C3 amended: the derived project is the segment at index 2 of the '/'-split,
\* which is "api" for "https://api/projects/my-proj" (segments "https:", "",
\* "api", ...) and "my-proj" for "v1alpha1/projects/my-proj"; "bad" is rejected
\* as malformed.
C3_ProjectIsThirdSegment ==
  /\ (op \in NoteOps /\ arg.aa.NoteReference = HttpsRef)
       => Addressed(Str("api"), arg.aa.Name)
  /\ (op \in NoteOps /\ arg.aa.NoteReference = V1Ref)
       => Addressed(Str("my-proj"), arg.aa.Name)
  /\ (op \in NoteOps /\ arg.aa.NoteReference = BadRef)
       => (result.err = "MalformedReference" /\ calls = <<>>)

C3_Witness ==
  /\ op = "CreateAttestationNote"
  /\ arg.aa.NoteReference = HttpsRef
  /\ Len(calls) = 1
  /\ calls[1].req.Parent = <<"projects", "/", "api">>
  /\ result.err = "nil"

\* C4: when a fetch of the listing fails (with anything but iterator.Done),
\* whatever was gathered before, the loop stops at that fetch, fethcOccurrence
\* returns that error and no occurrences, and the operation returns the error
\* and no results.
C4_FetchErrorDiscardsPartial ==
  (op \in ListOps /\ nexts > 0 /\ FirstErr(arg.it) # 0)
    => /\ nexts = FirstErr(arg.it)
       /\ fetched = [err |-> arg.it[FirstErr(arg.it)].err, occs |-> <<>>]
       /\ result = Result(arg.it[FirstErr(arg.it)].err, <<>>)
       /\ Len(calls) = 1

C4_Witness ==
  /\ op = "GetVulnerabilities"
  /\ arg.it = <<ItemOk(OccB), ItemErr>>
  /\ nexts = 2
  /\ result = Result("Unavailable", <<>>)

\* C5: for a valid image whose iterator yields r1..rn and then iterator.Done,
\* fethcOccurrence returns exactly r1..rn in that order without error, and the
\* operation returns one projected result per record, in that order.
C5_ListingReturnsAllInOrder ==
  (op \in ListOps /\ isValidImageOnGCR(arg.containerImage) /\ FirstErr(arg.it) = 0)
    => /\ fetched = [err |-> "nil", occs |-> [i \in 1..Len(arg.it) |-> arg.it[i].occ]]
       /\ result.err = "nil"
       /\ Len(result.val) = Len(arg.it)
       /\ \A i \in 1..Len(arg.it) :
            IF op = "GetVulnerabilities"
            THEN result.val[i].CVE = arg.it[i].occ.NoteName
            ELSE result.val[i].Signature = arg.it[i].occ.Signature

\* The part of C5 that holds: the occurrences fethcOccurrence returns, and the
\* attestations GetAttestations returns, are the records yielded, in order.
FetchedInOrder ==
  (op \in ListOps /\ isValidImageOnGCR(arg.containerImage) /\ FirstErr(arg.it) = 0)
    => /\ fetched = [err |-> "nil", occs |-> [i \in 1..Len(arg.it) |-> arg.it[i].occ]]
       /\ op = "GetAttestations" =>
            /\ result.err = "nil"
            /\ Len(result.val) = Len(arg.it)
            /\ \A i \in 1..Len(arg.it) :
                 /\ result.val[i].Signature = arg.it[i].occ.Signature
                 /\ result.val[i].KeyId = arg.it[i].occ.PgpKeyId

\* C6: for every list of package issues, also with issues that have no fixed
\* location or no fixed-location version, HasFixAvailable is false exactly when
\* some issue's fixed-location version has kind MAXIMUM (so true for no issues).
C6_FixAvailableIffNoMaximum ==
  (op = "GetVulnerabilityFromOccurence" /\ arg.occ.Details = "VulnerabilityDetails")
    => /\ result.err = "nil"
       /\ result.val[1].HasFixAvailable
            = ~(\E i \in 1..Len(arg.occ.PackageIssue) :
                  /\ arg.occ.PackageIssue[i].hasFixedLocation
                  /\ arg.occ.PackageIssue[i].hasVersion
                  /\ arg.occ.PackageIssue[i].Kind = "MAXIMUM")

\* C7: the validator accepts an image reference exactly when the reference
\* parses and the registry host of the parsed reference ends with the two
\* labels "gcr" and "io"; every other reference is rejected.
C7_ValidIffRegistryEndsGcrIo ==
  op \in ImageOps
    => ((result.err # "InvalidImage")
          <=> /\ ParseReference(arg.containerImage).ok
              /\ EndsWithGcrIo(RegistryStr(ParseReference(arg.containerImage))))

C7_Witness ==
  /\ op = "GetAttestations"
  /\ arg.containerImage = <<"gcr", ".", "io", ".", "us", "/", "proj", "/", "img">>
  /\ result.err = "InvalidImage"

C8Ops == {"CreateAttestationNote", "CreateAttestationOccurence",
          "DeleteAttestationNote", "DeleteOccurrence"}

\* the full name of the note a descriptor names
NoteNameOf(aa) ==
  <<"projects", "/">> \o NoteKey(aa)[1] \o <<"/", "notes", "/">> \o NoteKey(aa)[2]

\* C8: a create or delete operation makes at most one remote call and returns
\* the error of that call unchanged; when the service answers from its store,
\* creating a note that exists returns the conflict error and deleting a note or
\* an occurrence that does not exist (any more) returns the not-found error.
C8_SingleCallErrorsSurface ==
  [][ op' \in C8Ops =>
        /\ Len(calls') <= 1
        /\ Len(calls') = 1 =>
             /\ result'.err = calls'[1].resp.err
             /\ calls'[1].resp.err \notin TransportErrors =>
                  /\ (op' = "CreateAttestationNote" /\ NoteNameOf(arg'.aa) \in st.notes)
                       => (result'.err = "AlreadyExists" /\ st' = st)
                  /\ (op' = "DeleteAttestationNote" /\ NoteNameOf(arg'.aa) \notin st.notes)
                       => (result'.err = "NotFound" /\ st' = st)
                  /\ (op' = "DeleteOccurrence" /\ arg'.occurrenceId \notin st.occs)
                       => (result'.err = "NotFound" /\ st' = st)
    ]_vars

C8_Witness ==
  /\ op = "CreateAttestationNote"
  /\ Len(calls) = 1
  /\ result.err = "AlreadyExists"

\* C9: for a valid image and a signing that succeeds, CreateAttestationOccurence
\* makes exactly one create-occurrence call: its parent is "projects/" and the
\* second '/'-segment of the image reference, its resource locator is the prefix
\* and the image reference, its note reference is the note's name, its signature
\* is what the signing delegate returned, its key id is the key's SecretName, and
\* no other field of the key is in the request.
C9_OccurrenceRequest ==
  (/\ op = "CreateAttestationOccurence"
   /\ Len(signCalls) > 0
   /\ signCalls[1].ret.err = "nil")
    => /\ Len(signCalls) = 1
       /\ signCalls[1].containerImage = arg.containerImage
       /\ signCalls[1].key = arg.pgpSigningKey
       /\ Len(calls) = 1
       /\ calls[1].method = "CreateOccurrence"
       /\ calls[1].req.Parent
            = <<"projects", "/">> \o Split(arg.containerImage, "/")[2]
       /\ calls[1].req.Occurrence.ResourceUrl = ResourceUrlPrefix \o arg.containerImage
       /\ calls[1].req.Occurrence.NoteName
            = (IF arg.note.nil THEN <<>> ELSE arg.note.Name)
       /\ calls[1].req.Occurrence.Signature = signCalls[1].ret.sig
       /\ calls[1].req.Occurrence.PgpKeyId = arg.pgpSigningKey.SecretName
       /\ \A f \in DOMAIN calls[1].req.Occurrence :
            calls[1].req.Occurrence[f]
              \notin {arg.pgpSigningKey.PrivateKey, arg.pgpSigningKey.PublicKey}
       /\ result = Result(calls[1].resp.err, calls[1].resp.val)

C9_Witness ==
  /\ op = "CreateAttestationOccurence"
  /\ arg.containerImage = <<"us", ".", "gcr", ".", "io", "/", "proj", "/", "img", ":", "tag">>
  /\ ~arg.note.nil
  /\ Len(calls) = 1
  /\ calls[1].req.Parent = <<"projects", "/", "proj">>
  /\ result.err = "nil"

\* C10: the three note operations address the same note of a well-formed
\* descriptor: against the service's store, GetAttestationNote succeeds exactly
\* when the descriptor's note was created and not deleted since, and fails with
\* not-found otherwise; with a malformed note reference all three fail without a
\* remote call.
C10_NoteLifecycle ==
  op \in NoteOps =>
    IF WellFormedRef(arg.aa.NoteReference)
    THEN /\ Addressed(NoteKey(arg.aa)[1], arg.aa.Name)
         /\ (op = "GetAttestationNote" /\ calls[1].resp.err \notin TransportErrors)
              => /\ result.err \in {"nil", "NotFound"}
                 /\ result.err = "nil" <=> NoteKey(arg.aa) \in live
                 /\ result.err = "nil" => result.val = NoteNameOf(arg.aa)
    ELSE /\ result = Result("MalformedReference", <<>>)
         /\ calls = <<>>

C10_Witness ==
  /\ op = "GetAttestationNote"
  /\ arg.aa.NoteReference = LongRef
  /\ result.err = "nil"
  /\ live = {<<Str("my-proj"), Str("att1")>>}

====
